---- MODULE Spec2Model ----
(***************************************************************************)
(* The circle repository over a relational store                           *)
(* (crates/infrastructure/src/circle_repository_with_my_sql.rs), the       *)
(* storage mapping (crates/infrastructure/src/db_data/circle_data.rs) and  *)
(* the fetch handler (handler.rs).                                         *)
(*                                                                         *)
(* The store is two tables, circles(id, name, owner_id, capacity) and      *)
(* members(id, name, age, grade, major, circle_id).  Every SQL statement   *)
(* the repository issues is one atomic step; an operation is the sequence  *)
(* of its statements, with no transaction around them.  A statement may    *)
(* fail, and the operation then returns its error at once.                 *)
(***************************************************************************)
EXTENDS Integers, Sequences, FiniteSets, TLC

\* ---------------------------------------------------------------- bounds
\* Operations started in one behaviour.
MaxOps == 3
\* Statement failures injected in one behaviour.
MaxFailures == 1
\* In-memory (unassigned) member identifiers are drawn from 0..MaxInMemoryId.
MaxInMemoryId == 2
\* Capacities are drawn from 1..MaxCapacity.
MaxCapacity == 2
\* Other (non-owner) members of a circle handed to create.
MaxOthers == 1
\* Operations started in one behaviour of interleaved requests.
MaxConcurrentOps == 2

Procs == {1, 2}

VARIABLES
    db,        \* the store: both tables and their auto-increment counters
    pc,        \* per request: the statement it is about to issue
    op,        \* per request: the locals of the operation in progress
    res,       \* per request: the outcome of its last finished operation
    agg,       \* per request: the aggregate it holds (last one it fetched)
    ops,       \* operations started so far
    failures,  \* statement failures so far
    last,      \* the request whose operation finished last (0: none yet)
    mode       \* "serial": one operation at a time; "concurrent": interleaved

vars == <<db, pc, op, res, agg, ops, failures, last, mode>>

\* ------------------------------------------------------- domain values
\* Grade and Major are validated wrappers around the stored scalar.
Grade(n) == [grade |-> n]
Major(s) == [major |-> s]
MajorNames == {"Music", "Art"}

GradeTryFrom(n) ==
    IF n >= 1 /\ n <= 4 THEN [ok |-> TRUE, value |-> Grade(n)]
    ELSE [ok |-> FALSE, value |-> Grade(0)]

MajorTryFrom(s) ==
    IF s \in MajorNames THEN [ok |-> TRUE, value |-> Major(s)]
    ELSE [ok |-> FALSE, value |-> Major("")]

NoMember == [id |-> -1, name |-> "", age |-> 0, grade |-> Grade(0), major |-> Major("")]
NoMemberData == [id |-> -1, name |-> "", age |-> 0, grade |-> 0, major |-> ""]
NoCircle == [id |-> -1, name |-> "", capacity |-> 0, owner |-> NoMember, members |-> <<>>]
NoCircleData ==
    [id |-> -1, name |-> "", owner_id |-> -1, owner |-> NoMemberData,
     capacity |-> 0, members |-> <<>>]
NoRow == [id |-> -1, name |-> "", owner_id |-> -1, capacity |-> 0]

\* MemberData::from(Member): unwrap the value objects.
MemberDataFrom(m) ==
    [id |-> m.id, name |-> m.name, age |-> m.age,
     grade |-> m.grade.grade, major |-> m.major.major]

\* Member::try_from(MemberData): re-validate grade and major.
MemberTryFrom(d) ==
    LET g == GradeTryFrom(d.grade)
        j == MajorTryFrom(d.major)
    IN  IF g.ok /\ j.ok
        THEN [ok |-> TRUE,
              value |-> [id |-> d.id, name |-> d.name, age |-> d.age,
                         grade |-> g.value, major |-> j.value]]
        ELSE [ok |-> FALSE, value |-> NoMember]

\* The first index of s whose element has the given id, 0 when there is none
\* (Iterator::find).
FindIndexById(s, id) ==
    IF \E i \in 1..Len(s) : s[i].id = id
    THEN CHOOSE i \in 1..Len(s) :
            /\ s[i].id = id
            /\ \A j \in 1..(i - 1) : s[j].id # id
    ELSE 0

\* ---------------------------------------------------- storage mapping
\* impl From<Circle> for CircleData
CircleDataFrom(circle) ==
    [id |-> circle.id,
     name |-> circle.name,
     owner_id |-> circle.owner.id,
     owner |-> MemberDataFrom(circle.owner),
     capacity |-> circle.capacity,
     members |-> [i \in 1..Len(circle.members) |-> MemberDataFrom(circle.members[i])]]

\* impl TryFrom<CircleData> for Circle
CircleTryFrom(data) ==
    LET conv == [i \in 1..Len(data.members) |-> MemberTryFrom(data.members[i])]
        members == [i \in 1..Len(conv) |-> conv[i].value]
        k == FindIndexById(members, data.owner_id)
    IN  IF \E i \in 1..Len(conv) : ~conv[i].ok
        THEN [ok |-> FALSE, err |-> "Invalid member", value |-> NoCircle]
        ELSE IF k = 0
        THEN [ok |-> FALSE, err |-> "Owner not found", value |-> NoCircle]
        ELSE [ok |-> TRUE, err |-> "",
              value |-> [id |-> data.id, name |-> data.name,
                         capacity |-> data.capacity,
                         owner |-> members[k], members |-> members]]

\* ------------------------------------------------------------ the store
InitDb == [circles |-> {}, members |-> <<>>, nextCircleId |-> 1, nextMemberId |-> 1]

\* INSERT INTO circles (name, owner_id, capacity) VALUES (?, ?, ?)
\* The id column is not given: the store generates it.
InsertCircle(d, name, owner_id, capacity) ==
    [d EXCEPT
        !.circles = @ \cup {[id |-> d.nextCircleId, name |-> name,
                             owner_id |-> owner_id, capacity |-> capacity]},
        !.nextCircleId = @ + 1]

\* last_insert_id() of the INSERT that took d to its successor.
LastInsertId(d) == d.nextCircleId

\* INSERT INTO members (name, age, grade, major, circle_id) VALUES (?, ?, ?, ?, ?)
\* The id column is not given: the store generates it, whatever id the
\* in-memory member carries.
InsertMember(d, m, circle_id) ==
    [d EXCEPT
        !.members = Append(@, [id |-> d.nextMemberId, name |-> m.name, age |-> m.age,
                               grade |-> m.grade, major |-> m.major,
                               circle_id |-> circle_id]),
        !.nextMemberId = @ + 1]

\* UPDATE circles SET name = ?, owner_id = ?, capacity = ? WHERE id = ?
UpdateCircleRow(d, name, owner_id, capacity, id) ==
    [d EXCEPT
        !.circles = {IF r.id = id
                     THEN [id |-> r.id, name |-> name, owner_id |-> owner_id,
                           capacity |-> capacity]
                     ELSE r : r \in @}]

\* A DELETE whose WHERE clause is inverted: it removes the rows of every
\* other circle and keeps the circle's own.
DeleteMembersInverted(d, circle_id) ==
    [d EXCEPT !.members = SelectSeq(@, LAMBDA r : r.circle_id = circle_id)]

\* DELETE FROM members WHERE circle_id = ?
DeleteMembers(d, circle_id) ==
    [d EXCEPT !.members = SelectSeq(@, LAMBDA r : r.circle_id # circle_id)]

\* DELETE FROM circles WHERE id = ?
DeleteCircleRow(d, id) ==
    [d EXCEPT !.circles = {r \in @ : r.id # id}]

\* SELECT * FROM circles WHERE id = ?   (fetch_one: an error when no row)
SelectCircle(d, id) ==
    IF \E r \in d.circles : r.id = id
    THEN [ok |-> TRUE, row |-> CHOOSE r \in d.circles : r.id = id]
    ELSE [ok |-> FALSE, row |-> NoRow]

\* SELECT * FROM members WHERE circle_id = ?   (fetch_all, mapped to MemberData)
SelectMembers(d, circle_id) ==
    LET rows == SelectSeq(d.members, LAMBDA r : r.circle_id = circle_id)
    IN  [i \in 1..Len(rows) |->
            [id |-> rows[i].id, name |-> rows[i].name, age |-> rows[i].age,
             grade |-> rows[i].grade, major |-> rows[i].major]]

\* A find_by_id that reports a missing owner with the missing circle's error.
RehydrateSameError(row, members) ==
    LET k == FindIndexById(members, row.owner_id)
    IN  IF k = 0
        THEN [ok |-> FALSE, err |-> "Failed to fetch circle by id", value |-> NoCircle]
        ELSE CircleTryFrom([id |-> row.id, name |-> row.name,
                            owner_id |-> row.owner_id, owner |-> members[k],
                            capacity |-> row.capacity, members |-> members])

\* find_by_id, lines 49-64: from the circle row and the member rows to the
\* aggregate.
Rehydrate(row, members) ==
    LET k == FindIndexById(members, row.owner_id)
    IN  IF k = 0
        THEN [ok |-> FALSE, err |-> "Owner not found", value |-> NoCircle]
        ELSE CircleTryFrom([id |-> row.id, name |-> row.name,
                            owner_id |-> row.owner_id, owner |-> members[k],
                            capacity |-> row.capacity, members |-> members])

\* find_by_id against a store nobody else writes and no statement failing.
FindById(d, id) ==
    LET c == SelectCircle(d, id)
    IN  IF ~c.ok
        THEN [ok |-> FALSE, err |-> "Failed to fetch circle by id", value |-> NoCircle]
        ELSE Rehydrate(c.row, SelectMembers(d, id))

\* The statements of create, update and delete run back to back: what each
\* operation does to a store nobody else writes when no statement fails.
RECURSIVE InsertMembers(_, _, _)
InsertMembers(d, ms, circle_id) ==
    IF Len(ms) = 0 THEN d
    ELSE InsertMembers(InsertMember(d, Head(ms), circle_id), Tail(ms), circle_id)

\* The first k statements of create (lines 70-121), in the order it issues them.
CreatePrefix(d, data, k) ==
    LET d1 == InsertCircle(d, data.name, data.owner_id, data.capacity)
        d2 == InsertMember(d1, data.owner, LastInsertId(d))
    IN  IF k = 0 THEN d
        ELSE IF k = 1 THEN d1
        ELSE InsertMembers(d2, SubSeq(data.members, 1, k - 2), LastInsertId(d))

\* The first k statements of update (lines 130-182).
UpdatePrefix(d, data, k) ==
    LET d1 == UpdateCircleRow(d, data.name, data.owner_id, data.capacity, data.id)
        d2 == DeleteMembers(d1, data.id)
        d3 == InsertMember(d2, data.owner, data.id)
    IN  IF k = 0 THEN d
        ELSE IF k = 1 THEN d1
        ELSE IF k = 2 THEN d2
        ELSE InsertMembers(d3, SubSeq(data.members, 1, k - 3), data.id)

\* The first k statements of delete (lines 191-206).
DeletePrefix(d, data, k) ==
    IF k = 0 THEN d
    ELSE IF k = 1 THEN DeleteMembers(d, data.id)
    ELSE DeleteCircleRow(DeleteMembers(d, data.id), data.id)

\* How many statements the operation issues when none fails.
Statements(kind, data) ==
    IF kind = "create" THEN 2 + Len(data.members)
    ELSE IF kind = "update" THEN 3 + Len(data.members)
    ELSE 2

Prefix(kind, d, data, k) ==
    IF kind = "create" THEN CreatePrefix(d, data, k)
    ELSE IF kind = "update" THEN UpdatePrefix(d, data, k)
    ELSE DeletePrefix(d, data, k)

CreateAll(d, data) == CreatePrefix(d, data, Statements("create", data))
UpdateAll(d, data) == UpdatePrefix(d, data, Statements("update", data))
DeleteAll(d, data) == DeletePrefix(d, data, Statements("delete", data))

\* ------------------------------------------------------------- the inputs
Names == {"Music club", "Football club"}
Capacities == 1..MaxCapacity
InMemoryIds == 0..MaxInMemoryId
\* Scalar circle identifiers a caller may name.
MaxCircleId == 2
CircleIds == 0..MaxCircleId

John(id) == [id |-> id, name |-> "John Lennon", age |-> 21,
             grade |-> Grade(3), major |-> Major("Music")]
Paul(id) == [id |-> id, name |-> "Paul McCartney", age |-> 20,
             grade |-> Grade(2), major |-> Major("Art")]

OtherLists(ownerId) ==
    {<<>>} \cup (IF MaxOthers >= 1 THEN {<<Paul((ownerId + 1) % (MaxInMemoryId + 1))>>} ELSE {})
           \cup (IF MaxOthers >= 2
                 THEN {<<Paul((ownerId + 1) % (MaxInMemoryId + 1)),
                         Paul((ownerId + 1) % (MaxInMemoryId + 1))>>}
                 ELSE {})

\* A valid circle: capacity >= 1 and capacity >= owner + others.
ValidCircle(c) == c.capacity >= 1 /\ c.capacity >= 1 + Len(c.members)

\* Circles as Circle::create and add_member build them: identifiers unassigned.
CreateInputs ==
    {c \in [id : {0}, name : Names, capacity : Capacities,
            owner : {John(i) : i \in InMemoryIds},
            members : UNION {OtherLists(i) : i \in InMemoryIds}] :
        /\ ValidCircle(c)
        /\ c.members \in OtherLists(c.owner.id)}

\* Circles as Circle::reconstruct builds them from identifiers the caller names.
ReconstructInputs ==
    {[id |-> i, name |-> "Music club", capacity |-> MaxCapacity,
      owner |-> John(o), members |-> <<>>] :
        i \in CircleIds \ {0}, o \in InMemoryIds \ {0}}

\* Circle::update(name?, capacity?): each field changes only when given; fails
\* when the resulting capacity is below member count + 1.
UpdatesOf(c) ==
    {u \in {[c EXCEPT !.name = n, !.capacity = k] :
                n \in Names \cup {c.name}, k \in Capacities \cup {c.capacity}} :
        u.capacity >= Len(u.members) + 1}

UpdateInputs(p) ==
    (IF agg[p] = NoCircle THEN {} ELSE UpdatesOf(agg[p])) \cup ReconstructInputs

DeleteInputs(p) ==
    (IF agg[p] = NoCircle THEN {} ELSE {agg[p]}) \cup ReconstructInputs

\* ------------------------------------------------------- the HTTP layer
\* handle_fetch_circle, given what FetchCircleUsecase::execute returned (ok with
\* its output, or an error that displays as err): Ok is the JSON body, Err is
\* e.to_string() as the body text; axum answers both arms of
\* Result<Json<_>, String> with 200 OK.
HandleFetchCircle(ok, err, value) ==
    IF ok
    THEN [status |-> 200, text |-> "", json |-> value]
    ELSE [status |-> 200, text |-> err, json |-> NoCircle]

\* ---------------------------------------------------------- bookkeeping
NoOp ==
    [sn |-> 0, kind |-> "none", circle |-> NoCircle, data |-> NoCircleData,
     id |-> 0, i |-> 1, row |-> NoRow, pre |-> InitDb, applied |-> 0,
     peers |-> {}, peerDeleted |-> FALSE]

NoRes ==
    [sn |-> 0, kind |-> "none", circle |-> NoCircle, id |-> 0, pre |-> InitDb,
     post |-> InitDb, status |-> "none", msg |-> "", value |-> NoCircle,
     applied |-> 0, stmtFailed |-> FALSE, peers |-> {}, peerDeleted |-> FALSE]

Busy(p) == pc[p] # "idle"

\* A request may start an operation; in serial mode only while nothing runs.
MayStart(p) ==
    /\ pc[p] = "idle"
    /\ ops < (IF mode = "serial" THEN MaxOps ELSE MaxConcurrentOps)
    /\ mode = "serial" => (p = 1 /\ \A q \in Procs : ~Busy(q))

MayFail(ok) == ok \/ failures < MaxFailures

\* The locals of an operation as it starts: line 68, 127, 188
\* (CircleData::try_from(circle.clone())?), and the history the properties read.
Started(p, kind, circle, id) ==
    [sn |-> ops + 1, kind |-> kind, circle |-> circle,
     data |-> IF kind = "find" THEN NoCircleData ELSE CircleDataFrom(circle),
     id |-> id, i |-> 1, row |-> NoRow, pre |-> db, applied |-> 0,
     peers |-> {op[q].sn : q \in {r \in Procs \ {p} : Busy(r)}},
     peerDeleted |-> FALSE]

\* op with p's locals set to o, for the operation numbered sn; an operation
\* that starts in this step, whether it goes on or returns at once, is recorded
\* as a peer of the running ones (peers: the operations that ran while this
\* one did).
WithOp(p, o, sn) ==
    [q \in Procs |->
        IF q = p THEN o
        ELSE IF pc[p] = "idle" /\ Busy(q) THEN [op[q] EXCEPT !.peers = @ \cup {sn}]
        ELSE op[q]]

\* The statement succeeded and the operation goes on to its next statement.
Continue(p, o, next, d) ==
    /\ db' = d
    /\ pc' = [pc EXCEPT ![p] = next]
    /\ op' = WithOp(p, [o EXCEPT !.applied = @ + 1], o.sn)
    /\ UNCHANGED <<res, agg, last>>

Outcome(o, status, msg, value, d, stmtFailed) ==
    [sn |-> o.sn, kind |-> o.kind, circle |-> o.circle, id |-> o.id, pre |-> o.pre,
     post |-> d, status |-> status, msg |-> msg, value |-> value,
     applied |-> o.applied, stmtFailed |-> stmtFailed, peers |-> o.peers,
     peerDeleted |-> o.peerDeleted]

\* The operation returns Ok(value); a returned aggregate is what the request
\* now holds.
ReturnOk(p, o, value, d) ==
    /\ db' = d
    /\ pc' = [pc EXCEPT ![p] = "idle"]
    /\ op' = WithOp(p, NoOp, o.sn)
    /\ res' = [res EXCEPT ![p] = Outcome([o EXCEPT !.applied = @ + 1], "Ok", "", value, d, FALSE)]
    /\ agg' = [agg EXCEPT ![p] = IF value = NoCircle THEN @ ELSE value]
    /\ last' = p

\* map_err(...)? : the operation returns the error at once; nothing is undone.
\* stmtFailed: the error is a statement's failure, not a row that is missing.
ReturnErr(p, o, msg, stmtFailed) ==
    /\ db' = db
    /\ pc' = [pc EXCEPT ![p] = "idle"]
    /\ op' = WithOp(p, NoOp, o.sn)
    /\ res' = [res EXCEPT ![p] = Outcome(o, "Err", msg, NoCircle, db, stmtFailed)]
    /\ agg' = agg
    /\ last' = p

Count(ok, starting) ==
    /\ ops' = IF starting THEN ops + 1 ELSE ops
    /\ failures' = IF ok THEN failures ELSE failures + 1
    /\ mode' = mode

\* ------------------------------------------------------------- find_by_id
\* Lines 22-28: SELECT the circle row.
FindSelectCircle(p, id, ok) ==
    /\ MayStart(p) /\ MayFail(ok)
    /\ id \in CircleIds
    /\ LET o == Started(p, "find", NoCircle, id)
           c == SelectCircle(db, id)
       IN  IF ok /\ c.ok
           THEN Continue(p, [o EXCEPT !.row = c.row], "select_members", db)
           ELSE ReturnErr(p, o, "Failed to fetch circle by id", ~ok)
    /\ Count(ok, TRUE)

\* Lines 30-64: SELECT the member rows, find the owner, build the aggregate.
FindSelectMembers(p, ok) ==
    /\ pc[p] = "select_members" /\ MayFail(ok)
    /\ LET o == op[p]
           r == Rehydrate(o.row, SelectMembers(db, o.id))
       IN  IF ~ok THEN ReturnErr(p, o, "Failed to fetch members by circle id", TRUE)
           ELSE IF ~r.ok THEN ReturnErr(p, [o EXCEPT !.applied = @ + 1], r.err, FALSE)
           ELSE ReturnOk(p, o, r.value, db)
    /\ Count(ok, FALSE)

\* ----------------------------------------------------------------- create
\* Lines 68-85: INSERT the circle row, take the generated id.
CreateInsertCircle(p, circle, ok) ==
    /\ MayStart(p) /\ MayFail(ok)
    /\ circle \in CreateInputs
    /\ LET o == Started(p, "create", circle, 0)
           d == InsertCircle(db, o.data.name, o.data.owner_id, o.data.capacity)
       IN  IF ok
           THEN Continue(p, [o EXCEPT !.id = LastInsertId(db)], "insert_owner", d)
           ELSE ReturnErr(p, o, "Failed to insert circle", TRUE)
    /\ Count(ok, TRUE)

\* Lines 87-102: INSERT the owner's member row.
CreateInsertOwner(p, ok) ==
    /\ pc[p] = "insert_owner" /\ MayFail(ok)
    /\ LET o == op[p]
           d == InsertMember(db, o.data.owner, o.id)
       IN  IF ~ok THEN ReturnErr(p, o, "Failed to insert owner", TRUE)
           ELSE IF Len(o.data.members) = 0 THEN ReturnOk(p, o, NoCircle, d)
           ELSE Continue(p, o, "insert_member", d)
    /\ Count(ok, FALSE)

\* Lines 104-123: INSERT each other member's row.
CreateInsertMember(p, ok) ==
    /\ pc[p] = "insert_member" /\ MayFail(ok)
    /\ LET o == op[p]
           d == InsertMember(db, o.data.members[o.i], o.id)
       IN  IF ~ok THEN ReturnErr(p, o, "Failed to insert member", TRUE)
           ELSE IF o.i = Len(o.data.members) THEN ReturnOk(p, o, NoCircle, d)
           ELSE Continue(p, [o EXCEPT !.i = @ + 1], "insert_member", d)
    /\ Count(ok, FALSE)

\* ----------------------------------------------------------------- update
\* Lines 127-141: UPDATE the circle row.
UpdateCircle(p, circle, ok) ==
    /\ MayStart(p) /\ MayFail(ok)
    /\ circle \in UpdateInputs(p)
    /\ LET o == Started(p, "update", circle, circle.id)
           d == UpdateCircleRow(db, o.data.name, o.data.owner_id, o.data.capacity,
                                o.data.id)
       IN  IF ok THEN Continue(p, o, "delete_members", d)
           ELSE ReturnErr(p, o, "Failed to update circle", TRUE)
    /\ Count(ok, TRUE)

\* An update that is a diff: it keeps the member rows the circle already has
\* and goes straight on to the INSERTs.
UpdateKeepMembers(p, ok) ==
    /\ pc[p] = "delete_members" /\ MayFail(ok)
    /\ IF ok THEN Continue(p, op[p], "reinsert_owner", db)
       ELSE ReturnErr(p, op[p], "Failed to delete members", TRUE)
    /\ Count(ok, FALSE)

\* Lines 143-150: DELETE the circle's member rows.
UpdateDeleteMembers(p, ok) ==
    /\ pc[p] = "delete_members" /\ MayFail(ok)
    /\ LET o == op[p]
           d == DeleteMembers(db, o.data.id)
       IN  IF ok THEN Continue(p, o, "reinsert_owner", d)
           ELSE ReturnErr(p, o, "Failed to delete members", TRUE)
    /\ Count(ok, FALSE)

\* Another update of the same circle has issued its DELETE and no INSERT yet.
PeerDeleted(p) ==
    \E q \in Procs \ {p} :
        /\ pc[q] = "reinsert_owner"
        /\ op[q].data.id = op[p].data.id

\* Lines 152-165: INSERT the owner's member row afresh.
UpdateReinsertOwner(p, ok) ==
    /\ pc[p] = "reinsert_owner" /\ MayFail(ok)
    /\ LET o == [op[p] EXCEPT !.peerDeleted = PeerDeleted(p)]
           d == InsertMember(db, o.data.owner, o.data.id)
       IN  IF ~ok THEN ReturnErr(p, o, "Failed to insert owner", TRUE)
           ELSE IF Len(o.data.members) = 0 THEN ReturnOk(p, o, o.circle, d)
           ELSE Continue(p, o, "reinsert_member", d)
    /\ Count(ok, FALSE)

\* Lines 167-184: INSERT each other member's row afresh, return the circle.
UpdateReinsertMember(p, ok) ==
    /\ pc[p] = "reinsert_member" /\ MayFail(ok)
    /\ LET o == op[p]
           d == InsertMember(db, o.data.members[o.i], o.data.id)
       IN  IF ~ok THEN ReturnErr(p, o, "Failed to insert member", TRUE)
           ELSE IF o.i = Len(o.data.members) THEN ReturnOk(p, o, o.circle, d)
           ELSE Continue(p, [o EXCEPT !.i = @ + 1], "reinsert_member", d)
    /\ Count(ok, FALSE)

\* ----------------------------------------------------------------- delete
\* Lines 188-197: DELETE the circle's member rows.
DeleteDeleteMembers(p, circle, ok) ==
    /\ MayStart(p) /\ MayFail(ok)
    /\ circle \in DeleteInputs(p)
    /\ LET o == Started(p, "delete", circle, circle.id)
           d == DeleteMembers(db, o.data.id)
       IN  IF ok THEN Continue(p, o, "delete_circle", d)
           ELSE ReturnErr(p, o, "Failed to delete members", TRUE)
    /\ Count(ok, TRUE)

\* Lines 199-208: DELETE the circle row.
DeleteDeleteCircle(p, ok) ==
    /\ pc[p] = "delete_circle" /\ MayFail(ok)
    /\ LET o == op[p]
           d == DeleteCircleRow(db, o.data.id)
       IN  IF ok THEN ReturnOk(p, o, NoCircle, d)
           ELSE ReturnErr(p, o, "Failed to delete circle", TRUE)
    /\ Count(ok, FALSE)

\* ---------------------------------------------------------- specification
InitCommon ==
    /\ db = InitDb
    /\ pc = [p \in Procs |-> "idle"]
    /\ op = [p \in Procs |-> NoOp]
    /\ res = [p \in Procs |-> NoRes]
    /\ agg = [p \in Procs |-> NoCircle]
    /\ ops = 0
    /\ failures = 0
    /\ last = 0

\* One request at a time: every operation runs to its return before the next.
Init == InitCommon /\ mode = "serial"

\* The store after one create whose owner's in-memory id happens to be the id
\* the store generates for the owner's row, so that the circle can be fetched.
SeedCircle ==
    [id |-> 0, name |-> "Music club", capacity |-> MaxCapacity,
     owner |-> John(InitDb.nextMemberId), members |-> <<>>]
SeedDb == CreateAll(InitDb, CircleDataFrom(SeedCircle))

\* Requests are handled independently: statements of different operations
\* interleave.  Both requests have fetched the seed circle.
InitConcurrent ==
    /\ db = SeedDb
    /\ pc = [p \in Procs |-> "idle"]
    /\ op = [p \in Procs |-> NoOp]
    /\ res = [p \in Procs |-> NoRes]
    /\ agg = [p \in Procs |-> FindById(SeedDb, LastInsertId(InitDb)).value]
    /\ ops = 0
    /\ failures = 0
    /\ last = 0
    /\ mode = "concurrent"

Next ==
    \E p \in Procs, ok \in BOOLEAN :
        \/ \E id \in CircleIds : FindSelectCircle(p, id, ok)
        \/ FindSelectMembers(p, ok)
        \/ \E c \in CreateInputs : CreateInsertCircle(p, c, ok)
        \/ CreateInsertOwner(p, ok)
        \/ CreateInsertMember(p, ok)
        \/ \E c \in UpdateInputs(p) : UpdateCircle(p, c, ok)
        \/ UpdateDeleteMembers(p, ok)
        \/ UpdateReinsertOwner(p, ok)
        \/ UpdateReinsertMember(p, ok)
        \/ \E c \in DeleteInputs(p) : DeleteDeleteMembers(p, c, ok)
        \/ DeleteDeleteCircle(p, ok)

Spec == Init /\ [][Next]_vars

SpecConcurrent == InitConcurrent /\ [][Next]_vars

\* ------------------------------------------------- comparing aggregates
\* A member without the identifier the store assigns.
Person(m) == [name |-> m.name, age |-> m.age, grade |-> m.grade, major |-> m.major]

\* The two lists hold the same elements the same number of times.
SameUpToOrder(s, t) ==
    /\ Len(s) = Len(t)
    /\ \A i \in 1..Len(s) :
          Cardinality({j \in 1..Len(s) : s[j] = s[i]})
              = Cardinality({j \in 1..Len(t) : t[j] = s[i]})

People(ms) == [i \in 1..Len(ms) |-> Person(ms[i])]

\* Equal but for the identifiers the store assigns.
SameModuloIds(a, b) ==
    /\ a.name = b.name
    /\ a.capacity = b.capacity
    /\ Person(a.owner) = Person(b.owner)
    /\ SameUpToOrder(People(a.members), People(b.members))

\* Equal but for the order of the members list.
SameModuloOrder(a, b) ==
    /\ a.id = b.id
    /\ a.name = b.name
    /\ a.capacity = b.capacity
    /\ a.owner = b.owner
    /\ SameUpToOrder(a.members, b.members)

OwnerInMembers(c) == \E i \in 1..Len(c.members) : c.members[i].id = c.owner.id

\* The members of c that are not its owner.
OthersOf(c) == SelectSeq(c.members, LAMBDA m : m.id # c.owner.id)

IdsAssigned(c) ==
    /\ c.id > 0
    /\ c.owner.id > 0
    /\ \A i \in 1..Len(c.members) : c.members[i].id > 0

Writers == {"create", "update", "delete"}

\* ------------------------------------------------------------------ C1
\* C1: after a create that returned Ok with nothing else running, find_by_id
\* on the generated circle id succeeds and returns the circle that was
\* created, but for the identifiers the store assigned.
CreateFindRoundTrip ==
    \A p \in Procs :
        LET r == res[p] IN
        (r.kind = "create" /\ r.status = "Ok" /\ r.peers = {}) =>
            LET f == FindById(r.post, r.id)
            IN  f.ok /\ SameModuloIds(f.value, r.circle)

\* ------------------------------------------------------------------ C2
\* C2: a circle that find_by_id returns, updated to a new name and/or capacity
\* with nothing else running, is then found with the new name and capacity,
\* the same owner and the same other members.
UpdateFindReflects ==
    \A p \in Procs :
        LET r == res[p]
            before == FindById(r.pre, r.circle.id)
            after == FindById(r.post, r.circle.id)
        IN  (/\ r.kind = "update" /\ r.status = "Ok" /\ r.peers = {}
             /\ before.ok
             /\ r.circle \in UpdatesOf(before.value)) =>
                /\ after.ok
                /\ after.value.name = r.circle.name
                /\ after.value.capacity = r.circle.capacity
                /\ after.value.owner = before.value.owner
                /\ SameUpToOrder(People(OthersOf(after.value)),
                                 People(OthersOf(before.value)))

\* ------------------------------------------------------------------ C3
\* C3: a circle with assigned identifiers whose members list does not hold the
\* owner, converted to storage form by an operation and converted back, is the
\* same circle up to the order of its members.
MappingRoundTrip ==
    \A p \in Procs :
        (/\ Busy(p) /\ op[p].kind \in Writers
         /\ IdsAssigned(op[p].circle)
         /\ ~OwnerInMembers(op[p].circle)) =>
            LET back == CircleTryFrom(op[p].data)
            IN  back.ok /\ SameModuloOrder(back.value, op[p].circle)

\* ------------------------------------------------------------------ C4
\* C4: the members list of a circle that find_by_id returns does not hold the
\* circle's owner; a circle stored with its owner row alone is read back with
\* an empty members list.
OwnerExcludedFromMembers ==
    \A p \in Procs :
        LET r == res[p] IN
        (r.kind = "find" /\ r.status = "Ok") =>
            /\ ~OwnerInMembers(r.value)
            /\ Len(SelectMembers(r.post, r.id)) = 1 => r.value.members = <<>>

\* ------------------------------------------------------------------ C5
\* C5: a find_by_id that ran while one create, update or delete of the same
\* circle id ran (and nothing else), no statement failing, returns what
\* find_by_id returns before that operation, or what it returns after it, or
\* the circle-not-found error.
FindSeesWholeAggregate ==
    \A p \in Procs, q \in Procs :
        LET f == res[p]
            w == res[q]
            got == [ok |-> f.status = "Ok", err |-> f.msg, value |-> f.value]
        IN  (/\ p # q
             /\ f.kind = "find" /\ ~f.stmtFailed
             /\ w.kind \in Writers /\ w.status = "Ok" /\ w.id = f.id
             /\ f.peers = {w.sn} /\ w.peers = {f.sn}) =>
                \/ got = FindById(w.pre, f.id)
                \/ got = FindById(w.post, f.id)
                \/ got.err = "Failed to fetch circle by id"

\* ------------------------------------------- fetch of a missing circle
\* The error texts FetchCircleUsecase::execute may display for a repository
\* error: the repository's own, or the use case's "Circle not found".
UsecaseErrors(msg) == {msg, "Circle not found"}

\* A find_by_id of an identifier that has no circle row fails with the
\* repository's 'Failed to fetch circle by id', whatever the members table
\* holds; the HTTP fetch answers 200 OK with the text of the use case's error,
\* which is "Circle not found" only if the use case's error displays as that.
FetchMissingFailsAtRepository ==
    \A p \in Procs :
        LET r == res[p] IN
        (/\ r.kind = "find" /\ r.peers = {}
         /\ ~\E row \in r.pre.circles : row.id = r.id) =>
            /\ r.status = "Err"
            /\ r.msg = "Failed to fetch circle by id"
            /\ \A e \in UsecaseErrors(r.msg) :
                  LET http == HandleFetchCircle(FALSE, e, NoCircle)
                  IN  /\ http.status = 200
                      /\ http.text = "Circle not found" <=> e = "Circle not found"

\* A fetch of an identifier with no circle row has returned, no statement
\* having failed, while member rows exist.
FetchMissingReached ==
    \E p \in Procs :
        /\ res[p].kind = "find" /\ ~res[p].stmtFailed /\ res[p].peers = {}
        /\ ~\E row \in res[p].pre.circles : row.id = res[p].id
        /\ Len(res[p].pre.members) > 0

\* ------------------------------------------------------------------ C7
RowExists(d, id) == \E row \in d.circles : row.id = id

OwnerRowExists(d, id) ==
    \E row \in d.circles, i \in 1..Len(d.members) :
        /\ row.id = id
        /\ d.members[i].circle_id = id
        /\ d.members[i].id = row.owner_id

\* C7: with no statement failing and nothing else running, find_by_id fails
\* with the circle's not-found error when the circle row is absent, with the
\* different error 'Owner not found' when the row exists and no member row of
\* the circle has the row's owner_id, and returns a circle only when the
\* circle row and a matching owner row both exist.
FindDistinguishesFailures ==
    \A p \in Procs :
        LET r == res[p] IN
        (r.kind = "find" /\ ~r.stmtFailed /\ r.peers = {}) =>
            /\ ~RowExists(r.pre, r.id) =>
                  r.status = "Err" /\ r.msg = "Failed to fetch circle by id"
            /\ (RowExists(r.pre, r.id) /\ ~OwnerRowExists(r.pre, r.id)) =>
                  r.status = "Err" /\ r.msg = "Owner not found"
            /\ r.status = "Ok" =>
                  RowExists(r.pre, r.id) /\ OwnerRowExists(r.pre, r.id)
            /\ r.status = "Err" =>
                  (r.msg = "Owner not found") # (r.msg = "Failed to fetch circle by id")

\* A find_by_id has failed with 'Owner not found' on a circle row that exists.
OwnerNotFoundReached ==
    \E p \in Procs :
        /\ res[p].kind = "find" /\ ~res[p].stmtFailed /\ res[p].peers = {}
        /\ RowExists(res[p].pre, res[p].id)
        /\ res[p].msg = "Owner not found"

\* ------------------------------------------------------------------ C8
\* C8: every circle find_by_id returns, and every circle handed to update,
\* has capacity >= 1 + the length of its members list.
CapacityInvariant ==
    \A p \in Procs :
        /\ (res[p].kind = "find" /\ res[p].status = "Ok") =>
              res[p].value.capacity >= 1 + Len(res[p].value.members)
        /\ (Busy(p) /\ op[p].kind = "update") =>
              op[p].circle.capacity >= 1 + Len(op[p].circle.members)

\* ------------------------------------------------------------------ C9
\* With nothing else running, an operation whose statement k failed returned
\* an error, left the store as statements 1..k-1 made it, and issued no
\* statement after it.
AbortLeavesPrefix ==
    \A p \in Procs :
        LET r == res[p]
            data == CircleDataFrom(r.circle)
        IN  (r.kind \in Writers /\ r.stmtFailed /\ r.peers = {}) =>
                /\ r.status = "Err"
                /\ r.applied < Statements(r.kind, data)
                /\ r.post = Prefix(r.kind, r.pre, data, r.applied)
                /\ (ops = r.sn) => (pc[p] = "idle" /\ db = r.post)

\* C9: a failed statement aborts create, update and delete without rollback
\* (as AbortLeavesPrefix states); and a create that failed after its circle-row
\* insert leaves a circle row with no owner row, on which find_by_id fails with
\* 'Owner not found'.
FailedCreateLeavesOwnerlessCircle ==
    /\ AbortLeavesPrefix
    /\ \A p \in Procs :
        LET r == res[p] IN
        (/\ r.kind = "create" /\ r.stmtFailed /\ r.peers = {}
         /\ r.applied = 1) =>
            /\ RowExists(r.post, r.id)
            /\ ~OwnerRowExists(r.post, r.id)
            /\ FindById(r.post, r.id).err = "Owner not found"

\* ----------------------------------------------------------------- C10
\* The store without the identifiers it generated for member rows.
WithoutMemberIds(d) ==
    [circles |-> d.circles,
     members |-> [i \in 1..Len(d.members) |->
                    [name |-> d.members[i].name, age |-> d.members[i].age,
                     grade |-> d.members[i].grade, major |-> d.members[i].major,
                     circle_id |-> d.members[i].circle_id]]]

\* Two updates of one circle have returned Ok, each having run only while the
\* other did, and both had issued their DELETE before either issued an INSERT;
\* nothing has started since.
UpdatesRaced(p, q) ==
    /\ p # q
    /\ res[p].kind = "update" /\ res[q].kind = "update"
    /\ res[p].status = "Ok" /\ res[q].status = "Ok"
    /\ res[p].id = res[q].id
    /\ res[p].peers = {res[q].sn} /\ res[q].peers = {res[p].sn}
    /\ res[p].peerDeleted
    /\ ~Busy(p) /\ ~Busy(q)
    /\ ops = IF res[p].sn > res[q].sn THEN res[p].sn ELSE res[q].sn

\* C10: when two updates of one circle raced so that both deletes ran before
\* both re-inserts, the final store holds the member rows of both updates
\* together and equals the result of neither serial order of the two updates.
RacingUpdatesMatchNoSerialOrder ==
    \A p \in Procs, q \in Procs :
        UpdatesRaced(p, q) =>
            LET a == CircleDataFrom(res[p].circle)
                b == CircleDataFrom(res[q].circle)
                base == IF res[p].sn < res[q].sn THEN res[p].pre ELSE res[q].pre
            IN  /\ Len(SelectMembers(db, res[p].id))
                      = (1 + Len(a.members)) + (1 + Len(b.members))
                /\ WithoutMemberIds(db) # WithoutMemberIds(UpdateAll(UpdateAll(base, a), b))
                /\ WithoutMemberIds(db) # WithoutMemberIds(UpdateAll(UpdateAll(base, b), a))

\* Two updates of an existing circle have raced that way.
RacingUpdatesReached ==
    \E p \in Procs, q \in Procs :
        /\ UpdatesRaced(p, q)
        /\ RowExists(db, res[p].id)

\* ----------------------------------------------------------------- C11
\* The member rows tagged with the circle id, in the store's order, without the
\* identifiers the store generated for them.
TaggedRows(d, circle_id) ==
    LET rows == SelectSeq(d.members, LAMBDA r : r.circle_id = circle_id)
    IN  [i \in 1..Len(rows) |->
            [name |-> rows[i].name, age |-> rows[i].age, grade |-> rows[i].grade,
             major |-> rows[i].major, circle_id |-> rows[i].circle_id]]

\* The rows the claim expects for an aggregate: the owner, then each element of
\* circle.members, all tagged with the aggregate's circle id.
ReplacementRows(circle) ==
    LET ms == <<circle.owner>> \o circle.members
    IN  [i \in 1..Len(ms) |->
            [name |-> ms[i].name, age |-> ms[i].age, grade |-> ms[i].grade.grade,
             major |-> ms[i].major.major, circle_id |-> circle.id]]

\* The statement an update issues next, by the number it has applied.
UpdateStatementAt(data, k) ==
    IF k = 0 THEN "idle"
    ELSE IF k = 1 THEN "delete_members"
    ELSE IF k = 2 THEN "reinsert_owner"
    ELSE "reinsert_member"

\* C11: update is delete-and-replace.  After an update that returned Ok with
\* nothing else running, the member rows tagged with its circle id are exactly
\* the owner's row and one row per element of circle.members (N+1 rows),
\* whatever rows were tagged with that id before, and the rows of other circles
\* are untouched; and while it runs its statements come in the order UPDATE
\* circle row, DELETE member rows, INSERT owner, INSERT each other member.
UpdateReplacesMembers ==
    \A p \in Procs :
        /\ LET r == res[p]
               data == CircleDataFrom(r.circle)
           IN  (r.kind = "update" /\ r.status = "Ok" /\ r.peers = {}) =>
                   /\ TaggedRows(r.post, r.id) = ReplacementRows(r.circle)
                   /\ Len(TaggedRows(r.post, r.id)) = 1 + Len(r.circle.members)
                   /\ \A c \in CircleIds \ {r.id} :
                          TaggedRows(r.post, c) = TaggedRows(r.pre, c)
                   /\ r.applied = Statements("update", data)
                   /\ r.post = UpdateAll(r.pre, data)
        /\ LET o == op[p]
           IN  (Busy(p) /\ o.kind = "update" /\ o.peers = {}) =>
                   /\ pc[p] = UpdateStatementAt(o.data, o.applied)
                   /\ o.applied >= 3 => o.i = o.applied - 2
                   /\ db = UpdatePrefix(o.pre, o.data, o.applied)

\* An update has returned Ok on a circle id that had more member rows before
\* than the aggregate has members.
UpdateReplacedOtherRows ==
    \E p \in Procs :
        LET r == res[p] IN
        /\ r.kind = "update" /\ r.status = "Ok" /\ r.peers = {}
        /\ Len(TaggedRows(r.pre, r.id)) > 1 + Len(r.circle.members)
        /\ TaggedRows(r.post, r.id) = ReplacementRows(r.circle)

\* ----------------------------------------------------------------- C12
\* A member row references the circle id while the circle row is absent.
Orphaned(d, circle_id) ==
    /\ TaggedRows(d, circle_id) # <<>>
    /\ ~RowExists(d, circle_id)

\* With nothing else running, a delete issues DELETE member rows and then
\* DELETE circle row: once its first statement is applied no member row carries
\* the circle id, the circle row is still as it was until the second statement
\* is applied, and a delete whose first statement failed changed nothing.
DeleteRemovesMembersFirst ==
    \A p \in Procs :
        /\ LET o == op[p]
           IN  (Busy(p) /\ o.kind = "delete" /\ o.peers = {}) =>
                   /\ pc[p] = "delete_circle" /\ o.applied = 1
                   /\ db = DeletePrefix(o.pre, o.data, 1)
                   /\ TaggedRows(db, o.data.id) = <<>>
                   /\ db.circles = o.pre.circles
        /\ LET r == res[p]
               data == CircleDataFrom(r.circle)
           IN  (r.kind = "delete" /\ r.peers = {}) =>
                   /\ r.post = DeletePrefix(r.pre, data, r.applied)
                   /\ r.applied >= 1 => TaggedRows(r.post, r.id) = <<>>
                   /\ r.applied <= 1 => (r.stmtFailed /\ r.post.circles = r.pre.circles)
                   /\ r.applied = 0 => r.post = r.pre
                   /\ r.status = "Ok" <=> r.applied = 2

\* C12: delete removes the member rows of the circle id before the circle row
\* (as DeleteRemovesMembersFirst states), so with nothing else running no state
\* during or after a delete, the states a failed statement leaves included, has
\* a member row of that circle id while the circle row is absent; and after a
\* delete that completed neither the circle row nor a member row with that
\* circle id remains.
DeleteLeavesNoOrphan ==
    /\ DeleteRemovesMembersFirst
    /\ \A p \in Procs :
        /\ (Busy(p) /\ op[p].kind = "delete" /\ op[p].peers = {}) =>
               ~Orphaned(db, op[p].data.id)
        /\ LET r == res[p]
           IN  (r.kind = "delete" /\ r.peers = {}) =>
                   /\ ~Orphaned(r.post, r.id)
                   /\ r.status = "Ok" =>
                          /\ ~RowExists(r.post, r.id)
                          /\ TaggedRows(r.post, r.id) = <<>>

\* ----------------------------------------------------------------- C13
\* C13: after any sequence of create, update and delete operations, each run
\* to its return with no statement failing and none overlapping another, every
\* member row's circle_id is the id of a circle row in the store; an update of
\* a circle id that has no circle row included.
MemberRowsReferenceCircles ==
    (/\ failures = 0
     /\ \A p \in Procs : ~Busy(p) /\ res[p].peers = {}) =>
        \A i \in 1..Len(db.members) : RowExists(db, db.members[i].circle_id)

====
